---- MODULE Spec2Model ----
(***************************************************************************)
(* Model of cv.ino: the serial command dispatcher (loop), the reduced poll  *)
(* used inside a sweep (check_start_pause_cmd) and the triangular sweep     *)
(* (sweep_voltage) of the cyclic-voltammetry firmware.                      *)
(*                                                                          *)
(* Floats are kept in thousandths (volts -> millivolts, seconds -> ms).     *)
(* Bytes are their integer values: 48..57 are the ASCII digits, 46 is '.',  *)
(* 120 is the payload delimiter 'x'.                                        *)
(***************************************************************************)
EXTENDS Integers, Sequences, FiniteSets, TLC

\* ---------------------------------------------------------------- constants
HANDSHAKE == 0
START_PAUSE == 4
READ_SWEEPTIME == 5
READ_VLOW == 6
READ_VHIGH == 7
READ_NUM_SCAN == 8
STOP == 9
\* dac.setVoltage(uint32_t(819), false): the code written when a sweep ends
REST == 819
\* round(v / 5.0 * 4095.0)
DAC_FULL == 4095
V_REF == 5
\* readStringUntil('x')
DELIM == 120

\* ---------------------------------------------------------------- bounds
\* bytes the receive buffer holds before the host has to wait
QMax == 2
\* sweeps wider than this many codes per phase are not explored
MaxSpan == 2

\* The messages the host sends: one-byte commands (3 is a byte that is no
\* opcode) and set-parameter frames, opcode + ASCII payload + 'x'.
Frames ==
  { <<HANDSHAKE>>, <<START_PAUSE>>, <<STOP>>, <<3>>,
    <<READ_SWEEPTIME, 50, DELIM>>,
    <<READ_VLOW, 48, DELIM>>,
    <<READ_VLOW, 46, 48, 48, 49, DELIM>>,
    <<READ_VHIGH, DELIM>>,
    <<READ_VHIGH, 46, 48, 48, 50, DELIM>>,
    <<READ_NUM_SCAN, 50, DELIM>>,
    <<READ_NUM_SCAN, DELIM>> }

\* what the DAC register may hold at power-on (loaded from its EEPROM; the
\* sketch never writes it in setup)
PowerOnCodes == {REST, 2048}

VARIABLES
  continue_scan, sweeptime, vLow, vHigh, numScan, vLow_comp, vHigh_comp,
  dacCode,      \* the DAC's output register
  rx,           \* bytes received and not yet read (Serial's buffer)
  host,         \* rest of the message the host is sending
  pc,           \* where the firmware is: idle | token | step | hold | poll | wait
  inByte,       \* loop()'s opcode while readStringUntil collects its payload
  tok,          \* characters readStringUntil has collected
  scan_i, phase, counter,   \* sweep_voltage's loop variables
  holdMs,       \* the delay() in progress
  tx,           \* lines printed by the latest step
  writeReady,   \* what Serial.availableForWrite() answered the latest handshake
  nSamples,     \* sample lines printed by the latest sweep
  lastWrite,    \* the latest waveform write of the running sweep
  endedBy,      \* how the latest sweep ended: none | done | stop (none
                \* again once the dispatcher reads its next command)
  stopAhead,    \* bytes queued ahead of the Stop sent during this sweep
  sinceStop,    \* samples printed since that Stop was sent
  missed        \* set-parameter command whose opcode a sweep's poll consumed

config == <<sweeptime, vLow, vHigh, numScan, vLow_comp, vHigh_comp>>
locals == <<scan_i, phase, counter>>
hist == <<nSamples, lastWrite, endedBy, stopAhead, sinceStop, missed>>
vars == <<continue_scan, config, dacCode, rx, host, pc, inByte, tok, locals,
          holdMs, tx, writeReady, hist>>

None == [op |-> -1, val |-> 0]
NoWrite == [scan |-> 0, phase |-> "none", code |-> 0]

Active == pc \in {"step", "hold", "poll", "wait"}

\* ---------------------------------------------------------------- parsing
IsDigit(b) == b \in 48..57

RECURSIVE DigitsPrefix(_)
DigitsPrefix(s) ==
  IF s = <<>> \/ ~IsDigit(Head(s)) THEN <<>>
  ELSE <<Head(s)>> \o DigitsPrefix(Tail(s))

RECURSIVE DecVal(_)
DecVal(ds) ==
  IF ds = <<>> THEN 0
  ELSE DecVal(SubSeq(ds, 1, Len(ds) - 1)) * 10 + (ds[Len(ds)] - 48)

\* String::toInt (atol): the leading digits, 0 when there are none
toInt(s) == DecVal(DigitsPrefix(s))

\* String::toFloat (atof) in thousandths: digits, then '.' and digits; 0 when
\* the token does not start with a number
toFloat(s) ==
  LET ip == DigitsPrefix(s)
      rest == SubSeq(s, Len(ip) + 1, Len(s))
      fp == IF rest # <<>> /\ Head(rest) = 46 THEN DigitsPrefix(Tail(rest))
            ELSE <<>>
  IN DecVal(ip) * 1000 + DecVal(SubSeq(fp \o <<48, 48, 48>>, 1, 3))

\* uint32_t(round(v_comp / 5.0 * 4095.0)), v_comp >= 0 in thousandths
DacCodeOf(v_comp) == (2 * v_comp * DAC_FULL + V_REF * 1000) \div (2 * V_REF * 1000)

dac_vLow == DacCodeOf(vLow_comp)
dac_vHigh == DacCodeOf(vHigh_comp)

\* delay(sweeptime / 2 / (dac_vHigh - dac_vLow) * 1000), truncated to ms; a
\* float division by zero traps nothing and gives inf, written -1 here
StepDelay ==
  IF dac_vHigh = dac_vLow THEN -1
  ELSE sweeptime \div (2 * (dac_vHigh - dac_vLow))

\* ---------------------------------------------------------------- host
Init ==
  /\ continue_scan = FALSE
  /\ sweeptime = 20000
  /\ vLow = -1000
  /\ vHigh = 600
  /\ numScan = 1
  /\ vLow_comp = vLow + 1000
  /\ vHigh_comp = vHigh + 1000
  /\ dacCode \in PowerOnCodes
  /\ rx = <<>>
  /\ host = <<>>
  /\ pc = "idle"
  /\ inByte = -1
  /\ tok = <<>>
  /\ scan_i = 0 /\ phase = "none" /\ counter = 0
  /\ holdMs = 0
  /\ tx = <<"">>
  /\ writeReady = TRUE
  /\ nSamples = 0
  /\ lastWrite = NoWrite
  /\ endedBy = "none"
  /\ stopAhead = -1
  /\ sinceStop = 0
  /\ missed = None

\* the next byte from the host arrives in the receive buffer: the next byte
\* of the message it is sending, or the first byte of a new message
HostSend ==
  /\ Len(rx) < QMax
  /\ \E f \in (IF host = <<>> THEN Frames ELSE {host}) :
       /\ rx' = Append(rx, Head(f))
       /\ host' = Tail(f)
       /\ IF Active /\ Head(f) = STOP /\ stopAhead = -1
            THEN stopAhead' = Len(rx) /\ sinceStop' = 0
            ELSE UNCHANGED <<stopAhead, sinceStop>>
  /\ tx' = <<>>
  /\ writeReady' = TRUE
  /\ UNCHANGED <<continue_scan, config, dacCode, pc, inByte, tok, locals,
                 holdMs, nSamples, lastWrite, endedBy, missed>>

\* ---------------------------------------------------------------- sweep
Done == [scan |-> 0, phase |-> "done", code |-> 0]

\* the scan loop with an ascending test counter_up <= dac_vHigh
RECURSIVE ScanEntry_UpToHigh(_)
ScanEntry_UpToHigh(s) ==
  IF s <= numScan
    THEN IF dac_vLow <= dac_vHigh
           THEN [scan |-> s, phase |-> "up", code |-> dac_vLow]
           ELSE IF dac_vHigh > dac_vLow
                  THEN [scan |-> s, phase |-> "dn", code |-> dac_vHigh]
                  ELSE ScanEntry_UpToHigh(s + 1)
    ELSE Done

\* the scan loop counting from 0: for (scan_i = 0; scan_i <= numScan; ...)
RECURSIVE ScanEntry_FromZero(_)
ScanEntry_FromZero(s) ==
  IF s <= numScan + 1
    THEN IF dac_vLow < dac_vHigh
           THEN [scan |-> s, phase |-> "up", code |-> dac_vLow]
           ELSE IF dac_vHigh > dac_vLow
                  THEN [scan |-> s, phase |-> "dn", code |-> dac_vHigh]
                  ELSE ScanEntry_FromZero(s + 1)
    ELSE Done

\* for (scan_i ...) test, then the two inner for tests, from scan s on
RECURSIVE ScanEntry(_)
ScanEntry(s) ==
  IF s <= numScan
    THEN IF dac_vLow < dac_vHigh
           THEN [scan |-> s, phase |-> "up", code |-> dac_vLow]
           ELSE IF dac_vHigh > dac_vLow
                  THEN [scan |-> s, phase |-> "dn", code |-> dac_vHigh]
                  ELSE ScanEntry(s + 1)
    ELSE Done

\* the loop body that runs after the body at (s, ph, c): counter_up++ or
\* counter_dn-- and the for tests that follow
NextPos(s, ph, c) ==
  CASE ph = "none" -> ScanEntry(1)
    [] ph = "up" ->
         IF c + 1 < dac_vHigh
           THEN [scan |-> s, phase |-> "up", code |-> c + 1]
           ELSE IF dac_vHigh > dac_vLow
                  THEN [scan |-> s, phase |-> "dn", code |-> dac_vHigh]
                  ELSE ScanEntry(s + 1)
    [] ph = "dn" ->
         IF c - 1 > dac_vLow
           THEN [scan |-> s, phase |-> "dn", code |-> c - 1]
           ELSE ScanEntry(s + 1)

\* check_start_pause_cmd without its test for STOP
check_start_pause_cmd_NoStop(q, cont) ==
  IF q # <<>>
    THEN [rx |-> Tail(q),
          cont |-> IF Head(q) = START_PAUSE THEN ~cont ELSE cont,
          ret |-> TRUE]
    ELSE [rx |-> q, cont |-> cont, ret |-> TRUE]

\* check_start_pause_cmd that honours STOP only while the sweep is stepping
check_start_pause_cmd_StopIfRunning(q, cont) ==
  IF q # <<>>
    THEN [rx |-> Tail(q),
          cont |-> IF Head(q) = START_PAUSE THEN ~cont ELSE cont,
          ret |-> ~(Head(q) = STOP /\ cont)]
    ELSE [rx |-> q, cont |-> cont, ret |-> TRUE]

\* check_start_pause_cmd that toggles on every byte but STOP
check_start_pause_cmd_AnyToggles(q, cont) ==
  IF q # <<>>
    THEN [rx |-> Tail(q),
          cont |-> IF Head(q) # STOP THEN ~cont ELSE cont,
          ret |-> Head(q) # STOP]
    ELSE [rx |-> q, cont |-> cont, ret |-> TRUE]

\* check_start_pause_cmd that reads while (Serial.available() > 0)
check_start_pause_cmd_Drains(q, cont) ==
  IF q # <<>>
    THEN [rx |-> <<>>,
          cont |-> IF Head(q) = START_PAUSE THEN ~cont ELSE cont,
          ret |-> Head(q) # STOP]
    ELSE [rx |-> q, cont |-> cont, ret |-> TRUE]

\* check_start_pause_cmd that stops on inByte >= STOP
check_start_pause_cmd_StopOrAbove(q, cont) ==
  IF q # <<>>
    THEN [rx |-> Tail(q),
          cont |-> IF Head(q) = START_PAUSE THEN ~cont ELSE cont,
          ret |-> Head(q) < STOP]
    ELSE [rx |-> q, cont |-> cont, ret |-> TRUE]

\* check_start_pause_cmd on receive buffer q with continue_scan = cont
check_start_pause_cmd(q, cont) ==
  IF q # <<>>
    THEN [rx |-> Tail(q),
          cont |-> IF Head(q) = START_PAUSE THEN ~cont ELSE cont,
          ret |-> Head(q) # STOP]
    ELSE [rx |-> q, cont |-> cont, ret |-> TRUE]

\* the payload that follows an opcode in the byte stream s, up to 'x'
RECURSIVE TokenOf(_)
TokenOf(s) ==
  IF s = <<>> \/ Head(s) = DELIM THEN <<>>
  ELSE <<Head(s)>> \o TokenOf(Tail(s))

IsSet(b) == b \in {READ_SWEEPTIME, READ_VLOW, READ_VHIGH, READ_NUM_SCAN}

Parsed(op, t) == IF op = READ_NUM_SCAN THEN toInt(t) ELSE toFloat(t)

\* a set-parameter opcode read by the sweep's poll: remember what it asked for
Missed(q) ==
  IF q # <<>> /\ IsSet(Head(q))
    THEN [op |-> Head(q), val |-> Parsed(Head(q), TokenOf(Tail(q) \o host))]
    ELSE missed

\* a Stop that leaves the loops (break) and falls into the completion lines
Abort_Marked ==
  /\ dacCode' = REST
  /\ pc' = "idle"
  /\ endedBy' = "stop"
  /\ scan_i' = 0 /\ phase' = "none" /\ counter' = 0
  /\ lastWrite' = NoWrite
  /\ tx' = <<"DONE SWEEPING", "DONE SWEEPING", "DONE SWEEPING",
             "DONE SWEEPING", "DONE SWEEPING">>

\* return from sweep_voltage after a Stop: lines 74-75, 81-82, 99-100, 106-107
Abort ==
  /\ dacCode' = REST
  /\ pc' = "idle"
  /\ endedBy' = "stop"
  /\ scan_i' = 0 /\ phase' = "none" /\ counter' = 0
  /\ lastWrite' = NoWrite
  /\ tx' = <<>>

\* ---------------------------------------------------------------- loop()
\* the dispatcher reads a command: what is remembered of the latest sweep ends
NewCommand ==
  /\ nSamples' = 0
  /\ endedBy' = "none"
  /\ stopAhead' = -1 /\ sinceStop' = 0

\* case START_PAUSE that toggles continue_scan like the sweep's poll
LoopStart_Toggles ==
  /\ pc = "idle" /\ rx # <<>> /\ Head(rx) = START_PAUSE
  /\ dac_vHigh - dac_vLow <= MaxSpan
  /\ rx' = Tail(rx)
  /\ continue_scan' = ~continue_scan
  /\ pc' = "step"
  /\ tx' = <<>>
  /\ writeReady' = TRUE
  /\ NewCommand
  /\ missed' = None
  /\ UNCHANGED <<config, dacCode, host, inByte, tok, locals, holdMs, lastWrite>>

\* case START_PAUSE that enters sweep_voltage with continue_scan as it is
LoopStart_KeepsFlag ==
  /\ pc = "idle" /\ rx # <<>> /\ Head(rx) = START_PAUSE
  /\ dac_vHigh - dac_vLow <= MaxSpan
  /\ rx' = Tail(rx)
  /\ continue_scan' = continue_scan
  /\ pc' = "step"
  /\ tx' = <<>>
  /\ writeReady' = TRUE
  /\ NewCommand
  /\ missed' = None
  /\ UNCHANGED <<config, dacCode, host, inByte, tok, locals, holdMs, lastWrite>>

\* case START_PAUSE: continue_scan = true; sweep_voltage() is entered
LoopStart ==
  /\ pc = "idle" /\ rx # <<>> /\ Head(rx) = START_PAUSE
  /\ dac_vHigh - dac_vLow <= MaxSpan
  /\ rx' = Tail(rx)
  /\ continue_scan' = TRUE
  /\ pc' = "step"
  /\ tx' = <<>>
  /\ writeReady' = TRUE
  /\ NewCommand
  /\ missed' = None
  /\ UNCHANGED <<config, dacCode, host, inByte, tok, locals, holdMs, lastWrite>>

\* case READ_SWEEPTIME .. READ_NUM_SCAN: readStringUntil('x') begins
LoopSet ==
  /\ pc = "idle" /\ rx # <<>> /\ IsSet(Head(rx))
  /\ rx' = Tail(rx)
  /\ inByte' = Head(rx)
  /\ tok' = <<>>
  /\ pc' = "token"
  /\ tx' = <<>>
  /\ writeReady' = TRUE
  /\ NewCommand
  /\ UNCHANGED <<continue_scan, config, dacCode, host, locals, holdMs,
                 lastWrite, missed>>

\* case READ_VHIGH without vHigh_comp = vHigh + 1
Apply_StaleComp(op, t) ==
  /\ sweeptime' = IF op = READ_SWEEPTIME THEN toFloat(t) ELSE sweeptime
  /\ vLow' = IF op = READ_VLOW THEN toFloat(t) ELSE vLow
  /\ vLow_comp' = IF op = READ_VLOW THEN toFloat(t) + 1000 ELSE vLow_comp
  /\ vHigh' = IF op = READ_VHIGH THEN toFloat(t) ELSE vHigh
  /\ vHigh_comp' = vHigh_comp
  /\ numScan' = IF op = READ_NUM_SCAN THEN toInt(t) ELSE numScan
  /\ missed' = IF missed.op = op THEN None ELSE missed
  /\ pc' = "idle"
  /\ inByte' = -1
  /\ tok' = <<>>

\* the assignment that ends a set-parameter case, with the token read
Apply(op, t) ==
  /\ sweeptime' = IF op = READ_SWEEPTIME THEN toFloat(t) ELSE sweeptime
  /\ vLow' = IF op = READ_VLOW THEN toFloat(t) ELSE vLow
  /\ vLow_comp' = IF op = READ_VLOW THEN toFloat(t) + 1000 ELSE vLow_comp
  /\ vHigh' = IF op = READ_VHIGH THEN toFloat(t) ELSE vHigh
  /\ vHigh_comp' = IF op = READ_VHIGH THEN toFloat(t) + 1000 ELSE vHigh_comp
  /\ numScan' = IF op = READ_NUM_SCAN THEN toInt(t) ELSE numScan
  /\ missed' = IF missed.op = op THEN None ELSE missed
  /\ pc' = "idle"
  /\ inByte' = -1
  /\ tok' = <<>>

\* readStringUntil reads one more character; 'x' ends the token
TokenChar ==
  /\ pc = "token" /\ rx # <<>>
  /\ rx' = Tail(rx)
  /\ IF Head(rx) = DELIM
       THEN Apply(inByte, tok)
       ELSE /\ tok' = Append(tok, Head(rx))
            /\ UNCHANGED <<config, pc, inByte, missed>>
  /\ UNCHANGED <<continue_scan, dacCode, host, locals, holdMs, tx, writeReady,
                 nSamples, lastWrite, endedBy, stopAhead, sinceStop>>

\* readStringUntil gives up: nothing arrived within Serial's timeout
TokenTimeout ==
  /\ pc = "token" /\ rx = <<>>
  /\ Apply(inByte, tok)
  /\ UNCHANGED <<continue_scan, dacCode, rx, host, locals, holdMs, tx,
                 writeReady, nSamples, lastWrite, endedBy, stopAhead, sinceStop>>

\* case HANDSHAKE without the availableForWrite test
LoopHandshake_Unguarded ==
  /\ pc = "idle" /\ rx # <<>> /\ Head(rx) = HANDSHAKE
  /\ rx' = Tail(rx)
  /\ writeReady' \in BOOLEAN
  /\ tx' = <<"Message received.">>
  /\ NewCommand
  /\ UNCHANGED <<continue_scan, config, dacCode, host, pc, inByte, tok,
                 locals, holdMs, lastWrite, missed>>

\* case HANDSHAKE: the line is printed if Serial.availableForWrite() is not 0
LoopHandshake ==
  /\ pc = "idle" /\ rx # <<>> /\ Head(rx) = HANDSHAKE
  /\ rx' = Tail(rx)
  /\ writeReady' \in BOOLEAN
  /\ tx' = IF writeReady' THEN <<"Message received.">> ELSE <<>>
  /\ NewCommand
  /\ UNCHANGED <<continue_scan, config, dacCode, host, pc, inByte, tok,
                 locals, holdMs, lastWrite, missed>>

\* any other byte (STOP included) matches no case of the switch
LoopOther ==
  /\ pc = "idle" /\ rx # <<>>
  /\ Head(rx) # HANDSHAKE /\ Head(rx) # START_PAUSE /\ ~IsSet(Head(rx))
  /\ rx' = Tail(rx)
  /\ tx' = <<>>
  /\ writeReady' = TRUE
  /\ NewCommand
  /\ UNCHANGED <<continue_scan, config, dacCode, host, pc, inByte, tok,
                 locals, holdMs, lastWrite, missed>>

\* ---------------------------------------------------------------- sweep_voltage()
\* all scans are over: the rest code and the five marker lines
StepDone ==
  /\ dacCode' = REST
  /\ tx' = <<"DONE SWEEPING", "DONE SWEEPING", "DONE SWEEPING",
             "DONE SWEEPING", "DONE SWEEPING">>
  /\ pc' = "idle"
  /\ endedBy' = "done"
  /\ scan_i' = 0 /\ phase' = "none" /\ counter' = 0
  /\ lastWrite' = NoWrite
  /\ holdMs' = 0

\* if (continue_scan): the code is written and the delay begins
StepWrite(pos) ==
  /\ scan_i' = pos.scan /\ phase' = pos.phase /\ counter' = pos.code
  /\ dacCode' = pos.code
  /\ holdMs' = StepDelay
  /\ lastWrite' = pos
  /\ pc' = "hold"
  /\ tx' = <<>>
  /\ UNCHANGED endedBy

\* a body that writes its code without looking at continue_scan
StepPause_Writes(pos) ==
  /\ scan_i' = pos.scan /\ phase' = pos.phase /\ counter' = pos.code
  /\ dacCode' = pos.code
  /\ holdMs' = StepDelay
  /\ lastWrite' = pos
  /\ pc' = "hold"
  /\ tx' = <<>>
  /\ UNCHANGED endedBy

\* else: the body enters while (continue_scan == false)
StepPause(pos) ==
  /\ scan_i' = pos.scan /\ phase' = pos.phase /\ counter' = pos.code
  /\ pc' = "wait"
  /\ tx' = <<>>
  /\ UNCHANGED <<dacCode, holdMs, lastWrite, endedBy>>

\* the for tests and the body's if, after a poll or a pause that let it go on
Step ==
  /\ pc = "step"
  /\ LET pos == NextPos(scan_i, phase, counter) IN
       IF pos.phase = "done" THEN StepDone
       ELSE IF continue_scan THEN StepWrite(pos) ELSE StepPause(pos)
  /\ UNCHANGED <<continue_scan, config, rx, host, inByte, tok, writeReady,
                 nSamples, stopAhead, sinceStop, missed>>

\* the delay ends, both ADC channels are read and the sample line is printed
Hold ==
  /\ pc = "hold"
  /\ holdMs' = 0
  /\ tx' = <<"sample">>
  /\ nSamples' = nSamples + 1
  /\ sinceStop' = IF stopAhead # -1 THEN sinceStop + 1 ELSE sinceStop
  /\ pc' = "poll"
  /\ UNCHANGED <<continue_scan, config, dacCode, rx, host, inByte, tok, locals,
                 writeReady, lastWrite, endedBy, stopAhead, missed>>

\* a poll that runs the dispatcher's switch: a set-parameter opcode is applied
\* with the payload found behind it
Poll_Dispatches ==
  /\ pc = "poll"
  /\ LET r == check_start_pause_cmd(rx, continue_scan)
         op == IF rx # <<>> THEN Head(rx) ELSE -1
         t == IF rx # <<>> THEN TokenOf(Tail(rx)) ELSE <<>>
     IN
       /\ rx' = r.rx
       /\ continue_scan' = r.cont
       /\ sweeptime' = IF op = READ_SWEEPTIME THEN toFloat(t) ELSE sweeptime
       /\ vLow' = IF op = READ_VLOW THEN toFloat(t) ELSE vLow
       /\ vLow_comp' = IF op = READ_VLOW THEN toFloat(t) + 1000 ELSE vLow_comp
       /\ vHigh' = IF op = READ_VHIGH THEN toFloat(t) ELSE vHigh
       /\ vHigh_comp' = IF op = READ_VHIGH THEN toFloat(t) + 1000 ELSE vHigh_comp
       /\ numScan' = IF op = READ_NUM_SCAN THEN toInt(t) ELSE numScan
       /\ IF r.ret
            THEN /\ pc' = "step"
                 /\ tx' = <<>>
                 /\ UNCHANGED <<dacCode, locals, lastWrite, endedBy>>
            ELSE Abort
  /\ missed' = Missed(rx)
  /\ UNCHANGED <<host, inByte, tok, holdMs, writeReady, nSamples, stopAhead,
                 sinceStop>>

\* if (check_start_pause_cmd() == false) after the sample line
Poll ==
  /\ pc = "poll"
  /\ LET r == check_start_pause_cmd(rx, continue_scan) IN
       /\ rx' = r.rx
       /\ continue_scan' = r.cont
       /\ IF r.ret
            THEN /\ pc' = "step"
                 /\ tx' = <<>>
                 /\ UNCHANGED <<dacCode, locals, lastWrite, endedBy>>
            ELSE Abort
  /\ missed' = Missed(rx)
  /\ UNCHANGED <<config, host, inByte, tok, holdMs, writeReady, nSamples,
                 stopAhead, sinceStop>>

\* one turn of while (continue_scan == false)
Wait ==
  /\ pc = "wait"
  /\ LET r == check_start_pause_cmd(rx, continue_scan) IN
       /\ rx' = r.rx
       /\ continue_scan' = r.cont
       /\ IF r.ret
            THEN /\ pc' = IF r.cont THEN "step" ELSE "wait"
                 /\ tx' = <<>>
                 /\ UNCHANGED <<dacCode, locals, lastWrite, endedBy>>
            ELSE Abort
  /\ missed' = Missed(rx)
  /\ UNCHANGED <<config, host, inByte, tok, holdMs, writeReady, nSamples,
                 stopAhead, sinceStop>>

Next ==
  \/ HostSend
  \/ LoopStart
  \/ LoopSet
  \/ TokenChar
  \/ TokenTimeout
  \/ LoopHandshake
  \/ LoopOther
  \/ Step
  \/ Hold
  \/ Poll
  \/ Wait

Spec == Init /\ [][Next]_vars

\* the one-byte commands: handshake, start/pause, stop and a byte that is
\* no opcode
CtlFrames == { <<HANDSHAKE>>, <<START_PAUSE>>, <<STOP>>, <<3>> }

\* the firmware at idle after set commands made the window 0 V .. 0, 0.001
\* or 0.002 V with 0, 1 or 2 scans
SweepInit ==
  /\ continue_scan \in BOOLEAN
  /\ sweeptime = 20000
  /\ vLow = 0 /\ vLow_comp = 1000
  /\ vHigh \in {0, 1, 2} /\ vHigh_comp = vHigh + 1000
  /\ numScan \in {0, 1, 2}
  /\ dacCode \in PowerOnCodes
  /\ rx = <<>>
  /\ host = <<>>
  /\ pc = "idle"
  /\ inByte = -1
  /\ tok = <<>>
  /\ scan_i = 0 /\ phase = "none" /\ counter = 0
  /\ holdMs = 0
  /\ tx = <<>>
  /\ writeReady = TRUE
  /\ nSamples = 0
  /\ lastWrite = NoWrite
  /\ endedBy = "none"
  /\ stopAhead = -1
  /\ sinceStop = 0
  /\ missed = None

\* the host sends a one-byte command
HostCtl ==
  /\ Len(rx) < QMax
  /\ \E f \in CtlFrames :
       /\ rx' = Append(rx, Head(f))
       /\ host' = Tail(f)
       /\ IF Active /\ Head(f) = STOP /\ stopAhead = -1
            THEN stopAhead' = Len(rx) /\ sinceStop' = 0
            ELSE UNCHANGED <<stopAhead, sinceStop>>
  /\ tx' = <<>>
  /\ writeReady' = TRUE
  /\ UNCHANGED <<continue_scan, config, dacCode, pc, inByte, tok, locals,
                 holdMs, nSamples, lastWrite, endedBy, missed>>

\* the firmware driven by one-byte commands only
SweepNext ==
  \/ HostCtl
  \/ LoopStart
  \/ LoopHandshake
  \/ LoopOther
  \/ Step
  \/ Hold
  \/ Poll
  \/ Wait

\* sweep_voltage keeps running once entered: loop tests, the delay() of a
\* hold, a poll and a turn of the pause loop each return in finite time
FairSpec ==
  /\ SweepInit /\ [][SweepNext]_vars
  /\ WF_vars(Step) /\ WF_vars(Hold) /\ WF_vars(Poll) /\ WF_vars(Wait)

\* ---------------------------------------------------------------- properties
FiveMarkers ==
  <<"DONE SWEEPING", "DONE SWEEPING", "DONE SWEEPING", "DONE SWEEPING",
    "DONE SWEEPING">>

\* the position of the latest waveform write is not where the loops stand:
\* the body the loops stand at was spent in the pause loop
Resuming ==
  /\ pc = "step"
  /\ lastWrite # NoWrite
  /\ <<scan_i, phase, counter>> # <<lastWrite.scan, lastWrite.phase, lastWrite.code>>

\* a step of the firmware that reads the byte at the head of the receive buffer
Consumes(b) == rx # <<>> /\ Head(rx) = b /\ rx' = Tail(rx)

\* C1: a sweep over codeHigh > codeLow with numScans >= 1 that ended by normal
\* completion has printed exactly numScans * 2 * (codeHigh - codeLow) sample
\* lines, whatever bytes arrived during the sweep.
C1_CompletedSweepCount ==
  (endedBy = "done" /\ dac_vHigh > dac_vLow /\ numScan >= 1)
    => nSamples = numScan * 2 * (dac_vHigh - dac_vLow)

\* C2 as claimed: once a Stop is sent during a sweep at most one further sample
\* line is printed, whatever is queued ahead of it, and a sweep that returned
\* has left the rest code in the DAC.
C2_OneMoreSampleAtMost ==
  /\ stopAhead # -1 => sinceStop <= 1
  /\ endedBy # "none" => dacCode = REST

\* C2: once a Stop is sent during a sweep, at most one further sample line is
\* printed for the Stop itself and one for each byte queued ahead of it (each
\* poll reads one byte), and a sweep that returned has left the rest code in
\* the DAC.
C2_StopWithinQueuedBytes ==
  /\ stopAhead # -1 => sinceStop <= stopAhead + 1
  /\ endedBy # "none" => dacCode = REST

\* a sweep aborted by a Stop that was sent behind one queued byte, after two
\* more samples
C2_Witness ==
  endedBy = "stop" /\ stopAhead = 1 /\ sinceStop = 2 /\ dacCode = REST

\* C3: the first code written after a pause is ended is the one that follows
\* the last code sampled before the pause; no code is skipped or repeated.
C3_ResumeAtNextCode ==
  [][(Resuming /\ pc' = "hold")
       => lastWrite' = NextPos(lastWrite.scan, lastWrite.phase, lastWrite.code)]_vars

\* C4 as claimed: while a sweep is paused no sample line is printed, no
\* waveform code is written, and the rest code is written only because of a
\* Stop.
C4_PausedOnlyStopWrites ==
  [][(Active /\ ~continue_scan)
       => /\ nSamples' = nSamples
          /\ \/ lastWrite' = lastWrite /\ dacCode' = dacCode /\ Active'
             \/ endedBy' = "stop" /\ dacCode' = REST]_vars

\* C4: while a sweep is paused no sample line is printed and no waveform code
\* is written; the rest code is written because of a Stop or, when the pause
\* was toggled at the poll after the sweep's last step, because the sweep
\* completes (there is no further body to wait in).
C4_PausedNoWaveform ==
  [][(Active /\ ~continue_scan)
       => /\ nSamples' = nSamples
          /\ \/ lastWrite' = lastWrite /\ dacCode' = dacCode /\ Active'
             \/ endedBy' = "stop" /\ dacCode' = REST
             \/ /\ endedBy' = "done" /\ dacCode' = REST
                /\ pc = "step" /\ ~Resuming
                /\ NextPos(scan_i, phase, counter) = Done]_vars

\* a sweep that completed although its last poll had paused it
C4_Witness ==
  endedBy = "done" /\ ~continue_scan /\ nSamples > 0 /\ tx = FiveMarkers

\* C5: whenever no sweep is running the DAC holds the rest code.
C5_IdleAtRest ==
  pc \in {"idle", "token"} => dacCode = REST

\* C6 as claimed: every Handshake byte read from the receive buffer, idle,
\* stepping or paused, prints exactly one acknowledgement line.
C6_EveryHandshakeAcked ==
  [][Consumes(HANDSHAKE) => tx' = <<"Message received.">>]_vars

\* C6: a Handshake byte read by the idle dispatcher prints exactly one
\* acknowledgement line if the transmit buffer has room and none if it has
\* not; a Handshake byte read by a sweep's poll prints nothing; no other step
\* prints the acknowledgement.
C6_HandshakeAckedWhenIdle ==
  [][/\ Consumes(HANDSHAKE)
          => tx' = IF pc = "idle" /\ writeReady' THEN <<"Message received.">>
                   ELSE <<>>
     /\ tx' = <<"Message received.">>
          => pc = "idle" /\ pc' = "idle" /\ Consumes(HANDSHAKE)]_vars

\* an acknowledgement printed by the idle dispatcher
C6_Witness ==
  tx = <<"Message received.">> /\ writeReady /\ pc = "idle" /\ dacCode = REST

CfgOf(op) ==
  CASE op = READ_SWEEPTIME -> sweeptime
    [] op = READ_VLOW -> vLow
    [] op = READ_VHIGH -> vHigh
    [] op = READ_NUM_SCAN -> numScan

\* C7 as claimed: a set-parameter command that arrives during a sweep leaves
\* the running sweep alone and its value is in the Configuration when the
\* next sweep starts.
C7_AppliedToNextSweep ==
  [][/\ Active => config' = config
     /\ (pc = "idle" /\ pc' = "step" /\ missed # None)
          => CfgOf(missed.op) = missed.val]_vars

\* C7: nothing that arrives during a sweep changes the Configuration, hence
\* the bounds, the per-step delay or the scan count of the running sweep: a
\* set-parameter opcode read by the sweep's poll is dropped like any other
\* byte, and only the dispatcher, idle and inside readStringUntil, assigns the
\* parameter its opcode names.
C7_SweepLeavesConfiguration ==
  [][/\ Active => config' = config
     /\ (Active /\ \E b \in {READ_SWEEPTIME, READ_VLOW, READ_VHIGH, READ_NUM_SCAN} :
                     Consumes(b))
          => /\ config' = config
             /\ missed'.op = Head(rx)
             /\ pc' \in {"step", "wait"}
     /\ config' # config
          => /\ pc = "token"
             /\ \A b \in {READ_SWEEPTIME, READ_VLOW, READ_VHIGH, READ_NUM_SCAN} :
                  b # inByte => CfgOf(b)' = CfgOf(b)]_vars

\* a running sweep whose poll has read a set-scan-count command that asked for
\* another count than the Configuration holds
C7_Witness ==
  Active /\ missed.op = READ_NUM_SCAN /\ missed.val # numScan /\ nSamples > 0

\* C8: the codes written go up by 1 from codeLow to codeHigh - 1, then down by
\* 1 from codeHigh to codeLow + 1, the first code down being 1 above the last
\* code up, and the next scan starts again at codeLow.
C8_WaveformByOne ==
  [][(lastWrite' # lastWrite /\ lastWrite' # NoWrite)
       => LET w == lastWrite
              n == lastWrite'
          IN CASE w = NoWrite ->
                    n = [scan |-> 1, phase |-> "up", code |-> dac_vLow]
               [] w.phase = "up" /\ n.phase = "up" ->
                    n.scan = w.scan /\ n.code = w.code + 1
               [] w.phase = "up" /\ n.phase = "dn" ->
                    n.scan = w.scan /\ n.code = w.code + 1 /\ n.code = dac_vHigh
               [] w.phase = "dn" /\ n.phase = "dn" ->
                    n.scan = w.scan /\ n.code = w.code - 1
               [] w.phase = "dn" /\ n.phase = "up" ->
                    /\ n.scan = w.scan + 1 /\ w.code = dac_vLow + 1
                    /\ n.code = dac_vLow]_vars

\* C9: a sweep that completes writes the rest code and prints the marker five
\* times in a row, after its last sample; a sweep ended by a Stop prints no
\* marker, also when the Stop is read by the poll of the last step; nothing
\* else prints the marker.
C9_MarkerOnCompletionOnly ==
  [][/\ (Active /\ ~Active')
          => /\ dacCode' = REST
             /\ nSamples' = nSamples
             /\ \/ endedBy' = "done" /\ tx' = FiveMarkers /\ pc = "step"
                \/ endedBy' = "stop" /\ tx' = <<>> /\ Consumes(STOP)
     /\ (Active /\ Consumes(STOP)) => endedBy' = "stop" /\ tx' = <<>>
     /\ (\E i \in DOMAIN tx' : tx'[i] = "DONE SWEEPING")
          => Active /\ ~Active' /\ endedBy' = "done"]_vars

\* a sweep of two scans that completed: eight samples, then the markers
C9_Witness ==
  /\ endedBy = "done" /\ tx = FiveMarkers /\ dacCode = REST
  /\ numScan = 2 /\ nSamples = 2 * 2 * (dac_vHigh - dac_vLow) /\ nSamples > 0

\* C10: a Stop read while the sweep is paused ends the sweep at once, with the
\* rest code written, continue_scan still false and no further sample; and a
\* Stop is read only by the poll after a sample or by the pause loop, never
\* between a code's write and its sample.
C10_StopWinsOverPause ==
  [][(Active /\ Consumes(STOP))
       => /\ pc \in {"poll", "wait"}
          /\ pc' = "idle" /\ endedBy' = "stop"
          /\ dacCode' = REST
          /\ nSamples' = nSamples
          /\ continue_scan' = continue_scan
          /\ lastWrite' = NoWrite]_vars

\* a sweep stopped while it was paused
C10_Witness ==
  endedBy = "stop" /\ ~continue_scan /\ dacCode = REST /\ nSamples > 0

\* the bytes loop() and check_start_pause_cmd() compare against
Opcodes ==
  {HANDSHAKE, START_PAUSE, READ_SWEEPTIME, READ_VLOW, READ_VHIGH,
   READ_NUM_SCAN, STOP}

\* while sweep_voltage runs loop() dispatches nothing: bytes are read by the
\* sweep's own poll only, no token is read, no parameter is assigned and no
\* handshake is answered
SweepHoldsDispatcher ==
  Active =>
    /\ pc' \in {"step", "hold", "poll", "wait", "idle"}
    /\ config' = config
    /\ inByte' = inByte /\ tok' = tok
    /\ (rx # <<>> /\ rx' = Tail(rx)) => pc \in {"poll", "wait"}
    /\ \A i \in DOMAIN tx' : tx'[i] # "Message received."

\* C11 as stated: every opcode 4 that is consumed flips continue_scan, the
\* one consumed at idle starts the sweep in the same step, and nothing is
\* dispatched by loop() while the sweep runs.
C11_Opcode4AlwaysFlips ==
  [][/\ (pc # "token" /\ Consumes(START_PAUSE))
          => continue_scan' = ~continue_scan
     /\ (pc = "idle" /\ Consumes(START_PAUSE)) => pc' = "step"
     /\ SweepHoldsDispatcher]_vars

\* C11: an opcode 4 consumed by the poll of a running sweep flips
\* continue_scan; an opcode 4 consumed at idle sets continue_scan to true,
\* whatever it was, and enters the sweep in the same step; and while the
\* sweep runs loop() dispatches no command.
C11_StartSetsFlagAndHoldsDispatcher ==
  [][/\ (Active /\ Consumes(START_PAUSE)) => continue_scan' = ~continue_scan
     /\ (pc = "idle" /\ Consumes(START_PAUSE))
          => continue_scan' = TRUE /\ pc' = "step"
     /\ SweepHoldsDispatcher]_vars

\* a sweep just started with a command waiting that loop() has not dispatched
C11_Witness ==
  /\ pc = "step" /\ phase = "none" /\ continue_scan
  /\ rx # <<>> /\ Head(rx) = HANDSHAKE

\* C13: numScan is at least 1 in every reachable state, also after a
\* set-scan-count command whose payload is empty or malformed.
C13_NumScansAtLeastOne == numScan >= 1

\* the first step of a started sweep finds codeHigh <= codeLow
StartsDegenerate == pc = "step" /\ phase = "none" /\ dac_vHigh <= dac_vLow

\* C14 as stated: a sweep started with codeHigh <= codeLow executes no loop
\* body and evaluates the step delay with a zero divisor.
C14_DelayDividedByZero ==
  [][(StartsDegenerate /\ pc' # "step")
       => lastWrite' = NoWrite /\ holdMs' = -1]_vars

\* C14: a sweep started with codeHigh <= codeLow executes neither loop body,
\* so the step delay is not evaluated for it: no delay is ever computed with
\* a divisor that is not positive, and no division by zero occurs.
C14_DelayNeverEvaluated ==
  /\ [](holdMs # -1)
  /\ [](pc = "hold" => dac_vHigh - dac_vLow > 0)
  /\ [][(StartsDegenerate /\ pc' # "step")
          => /\ pc' = "idle" /\ endedBy' = "done"
             /\ lastWrite' = NoWrite /\ holdMs' = 0]_vars

\* a sweep over codeHigh = codeLow that has returned
C14_Witness ==
  /\ endedBy = "done" /\ dac_vHigh = dac_vLow /\ numScan >= 1
  /\ nSamples = 0 /\ tx = FiveMarkers

\* C15: in a sweep that is not paused, the hold and sample of a step are
\* followed by one poll before the next code is written, a code is written
\* only by the step that follows a poll, a resume or the start, and a poll
\* takes at most one byte from the receive buffer, the one at its head.
C15_OnePollPerStep ==
  [][/\ pc = "hold" => pc' \in {"hold", "poll"}
     /\ pc = "poll" => pc' \in {"poll", "step", "idle"}
     /\ (pc = "poll" /\ pc' # "poll")
          => /\ nSamples' = nSamples /\ lastWrite' \in {lastWrite, NoWrite}
             /\ IF rx = <<>> THEN rx' = rx ELSE rx' = Tail(rx)
     /\ (pc = "step" /\ pc' = "hold") => rx' = rx /\ nSamples' = nSamples
     /\ (Active /\ lastWrite' # lastWrite /\ lastWrite' # NoWrite)
          => pc = "step" /\ continue_scan /\ pc' = "hold"
     /\ (Active /\ Len(rx') < Len(rx))
          => pc \in {"poll", "wait"} /\ rx' = Tail(rx)]_vars

\* a poll after a sample took one byte and left the byte behind it queued
C15_Witness ==
  /\ pc = "step" /\ continue_scan /\ nSamples >= 1 /\ lastWrite # NoWrite
  /\ Len(rx) = QMax - 1 /\ rx # <<>>

\* C16: a byte that is no opcode, consumed at idle, by a sweep's poll or by
\* the pause loop, leaves the parameters, continue_scan, the DAC code and the
\* loop counters as they are and prints nothing; so does a Stop consumed at
\* idle, which also leaves loop() idle.
C16_UnknownByteIgnored ==
  [][/\ (pc # "token" /\ rx # <<>> /\ rx' = Tail(rx) /\ Head(rx) \notin Opcodes)
          => /\ UNCHANGED <<config, continue_scan, dacCode, locals>>
             /\ tx' = <<>>
             /\ pc = "idle" => pc' = "idle"
             /\ pc = "wait" => pc' = "wait"
             /\ pc = "poll" => pc' = "step"
     /\ (pc = "idle" /\ Consumes(STOP))
          => /\ UNCHANGED <<config, continue_scan, dacCode, locals>>
             /\ tx' = <<>> /\ pc' = "idle"]_vars

\* a paused sweep about to read a byte that is no opcode
C16_Witness ==
  /\ pc = "wait" /\ ~continue_scan /\ lastWrite # NoWrite
  /\ rx # <<>> /\ Head(rx) \notin Opcodes

\* C17: vLow_comp = vLow + 1 and vHigh_comp = vHigh + 1 in every reachable
\* state; a raw bound and its compensated value change in the same step, and
\* only when the token of a READ_VLOW or READ_VHIGH case is assigned.
C17_CompensatedTogether ==
  /\ [](vLow_comp = vLow + 1000 /\ vHigh_comp = vHigh + 1000)
  /\ [][/\ (vLow' # vLow \/ vLow_comp' # vLow_comp)
             => /\ pc = "token" /\ inByte = READ_VLOW
                /\ vLow' # vLow /\ vLow_comp' # vLow_comp
        /\ (vHigh' # vHigh \/ vHigh_comp' # vHigh_comp)
             => /\ pc = "token" /\ inByte = READ_VHIGH
                /\ vHigh' # vHigh /\ vHigh_comp' # vHigh_comp]_vars

\* both bounds have been set away from their defaults
C17_Witness ==
  /\ vLow = 1 /\ vLow_comp = 1001
  /\ vHigh = 2 /\ vHigh_comp = 1002

\* C18: an opcode 4 consumed while a sweep runs flips continue_scan and moves
\* neither the loop counters nor the sample count, and the sweep stays the
\* one that was running; every entry of sweep_voltage is made from idle, at
\* the loops' start, with continue_scan true.
C18_SingleSweepInvocation ==
  [][/\ (Active /\ Consumes(START_PAUSE))
          => /\ continue_scan' = ~continue_scan
             /\ UNCHANGED <<locals, nSamples, lastWrite, dacCode, endedBy>>
             /\ pc' \in {"step", "wait"}
     /\ (pc' = "step" /\ phase' = "none")
          => \/ pc = "step" /\ phase = "none"
             \/ pc = "idle" /\ continue_scan']_vars

\* a sweep resumed by an opcode 4 goes on from where it was paused
C18_Witness ==
  Resuming /\ continue_scan /\ nSamples >= 2

\* the first step of a started sweep finds nothing to sweep
StartsEmpty ==
  pc = "step" /\ phase = "none" /\ (dac_vHigh <= dac_vLow \/ numScan <= 0)

\* C19: a sweep started with codeHigh <= codeLow or numScan <= 0 prints no
\* sample, writes no waveform code and polls nothing; its one step writes
\* the rest code, prints the marker five times and returns to loop().
C19_EmptySweep ==
  [][StartsEmpty
       => \/ /\ pc' = "step"
             /\ UNCHANGED <<dacCode, locals, nSamples, lastWrite, continue_scan>>
          \/ /\ pc' = "idle" /\ endedBy' = "done"
             /\ dacCode' = REST /\ tx' = FiveMarkers
             /\ rx' = rx /\ nSamples' = 0 /\ lastWrite' = NoWrite
             /\ continue_scan' = continue_scan]_vars

\* a sweep of zero scans over codeHigh > codeLow that has returned
C19_Witness ==
  /\ endedBy = "done" /\ numScan = 0 /\ dac_vHigh > dac_vLow
  /\ nSamples = 0 /\ tx = FiveMarkers /\ dacCode = REST

\* every turn of the pause loop is followed by one that finds a resume
\* toggle or a Stop at the head of the receive buffer
PauseAnswered ==
  [](pc = "wait" => <>(pc = "wait" /\ rx # <<>>
                         /\ Head(rx) \in {START_PAUSE, STOP}))

\* C12: if every hold finishes and every pause is answered by a resume
\* toggle or a Stop, every started sweep returns to loop(); and the pause
\* loop is left only by reading an opcode 4 or a Stop.
C12_SweepReturns ==
  /\ PauseAnswered => (Active ~> pc = "idle")
  /\ [][(pc = "wait" /\ pc' # "wait")
          => Consumes(START_PAUSE) \/ Consumes(STOP)]_vars

\* a sweep that was paused, resumed and then ran to completion
C12_Witness ==
  /\ endedBy = "done" /\ continue_scan /\ tx = FiveMarkers
  /\ nSamples > 0 /\ nSamples < numScan * 2 * (dac_vHigh - dac_vLow)
====
